---- MODULE Spec2Model ----
(***************************************************************************)
(* Model of ot-2_fast_10x_serial_dilution.py: the module-level start-up    *)
(* guard, how_many, the switch class that loads the deck, load_instrument  *)
(* and the nested dilution loop of run().  Every call into the robot API   *)
(* is appended to `trace`, the command sequence the protocol emits.        *)
(***************************************************************************)
EXTENDS Integers, Sequences, FiniteSets, TLC

VARIABLES instances, filled_columns, pc, dilutionplate_10X, tiprack_10X,
          trace, i, j, hasTip, tipsUsed, loc, printed, exitStatus

vars == <<instances, filled_columns, pc, dilutionplate_10X, tiprack_10X,
          trace, i, j, hasTip, tipsUsed, loc, printed, exitStatus>>

(* ---- bounds of the explored configurations ---- *)
MaxInstanceInput == 8

(* ---- protocol parameters (run, "Protocol Parameters Section") ---- *)
tiprack_type == "opentrons_96_filtertiprack_200ul"
plate_type == "corning_96_wellplate_360ul_flat"
pipette_type == "p300_multi_gen2"
dilution_volume == 20
mix_repetitions == 15
mix_volume == 20
\* mix_rate = 1.0, kept in tenths
mix_rate == 10

\* a 96-well plate has 12 columns; a 96-tip rack gives an 8-channel
\* pipette 12 pick-ups
PlateColumns == 12
TipsPerRack == 12
TrashSlot == 12

\* the values the two overall parameters (lines 24-25) are edited to:
\* any small integer for instances, and for filled_columns a number of
\* columns of a plate
InstanceInputs == -1..MaxInstanceInput
ColumnInputs == 0..PlateColumns

(* ---- module-level guard, lines 27-30 ---- *)
TooManyColumns_C10(inst, fc) == inst = 6 /\ fc > 11

TooManyColumns(inst, fc) == inst = 6 /\ fc > 10

(* ---- how_many, lines 32-54 ---- *)
how_many_C1(num) ==
    CASE num = 6 -> "six"
      [] num = 5 -> "five"
      [] num = 4 -> "four"
      [] num = 3 -> "three"
      [] num = 2 -> "two"
      [] num = 1 -> "one"
      [] num = 0 -> "one"
      [] OTHER -> "default"

how_many(num) ==
    CASE num = 6 -> "six"
      [] num = 5 -> "five"
      [] num = 4 -> "four"
      [] num = 3 -> "three"
      [] num = 2 -> "two"
      [] num = 1 -> "one"
      [] OTHER -> "default"

(* ---- class switch, lines 118-153 ---- *)
\* the load_labware calls of one method of switch, in program order
Loads_C3(name) ==
    CASE name = "six" -> << <<tiprack_type, 12>>, <<plate_type, 1>> >>
      [] name = "five" -> << <<tiprack_type, 2>>, <<plate_type, 3>> >>
      [] name = "four" -> << <<tiprack_type, 6>>, <<plate_type, 5>> >>
      [] name = "three" -> << <<tiprack_type, 4>>, <<plate_type, 7>> >>
      [] name = "two" -> << <<tiprack_type, 10>>, <<plate_type, 11>> >>
      [] name = "one" -> << <<tiprack_type, 8>>, <<plate_type, 9>> >>
      [] OTHER -> << >>

Loads_C9(name) ==
    CASE name = "six" -> << <<plate_type, 1>> >>
      [] name = "five" -> << <<tiprack_type, 2>>, <<plate_type, 3>> >>
      [] name = "four" -> << <<tiprack_type, 6>>, <<plate_type, 5>> >>
      [] name = "three" -> << <<tiprack_type, 4>>, <<plate_type, 7>> >>
      [] name = "two" -> << <<tiprack_type, 10>>, <<plate_type, 10>> >>
      [] name = "one" -> << <<tiprack_type, 8>>, <<plate_type, 9>> >>
      [] OTHER -> << >>

Loads(name) ==
    CASE name = "six" -> << <<plate_type, 1>> >>
      [] name = "five" -> << <<tiprack_type, 2>>, <<plate_type, 3>> >>
      [] name = "four" -> << <<tiprack_type, 6>>, <<plate_type, 5>> >>
      [] name = "three" -> << <<tiprack_type, 4>>, <<plate_type, 7>> >>
      [] name = "two" -> << <<tiprack_type, 10>>, <<plate_type, 11>> >>
      [] name = "one" -> << <<tiprack_type, 8>>, <<plate_type, 9>> >>
      [] OTHER -> << >>

\* the method each method of switch calls last ("return": none)
Callee_C4(name) ==
    CASE name = "six" -> "five"
      [] name = "five" -> "four"
      [] name = "four" -> "three"
      [] name = "three" -> "one"
      [] name = "two" -> "one"
      [] OTHER -> "return"

Callee(name) ==
    CASE name = "six" -> "five"
      [] name = "five" -> "four"
      [] name = "four" -> "three"
      [] name = "three" -> "two"
      [] name = "two" -> "one"
      [] OTHER -> "return"

\* protocol.load_labware(type, slot): the handle it returns
load_labware(type, slot) == [labware |-> type, slot |-> slot]

IsPlate(h) == h.labware = plate_type
IsTiprack(h) == h.labware = tiprack_type

\* the handles loaded by one method of switch
Handles(name) ==
    [k \in 1..Len(Loads(name)) |->
        load_labware(Loads(name)[k][1], Loads(name)[k][2])]

\* all handles loaded by getattr(switch, name)(), callees included
RECURSIVE HandlesFrom(_)
HandlesFrom(name) ==
    IF name \in {"return", "default"}
    THEN << >>
    ELSE Handles(name) \o HandlesFrom(Callee(name))

\* the lists dilutionplate_10X and tiprack_10X built for an instance count
PlatesFor(n) == SelectSeq(HandlesFrom(how_many(n)), IsPlate)
TipracksFor(n) == SelectSeq(HandlesFrom(how_many(n)), IsTiprack)

(* ---- the emitted commands ---- *)
Cmd(op, labware, slot, col, vol, reps, rate, tip) ==
    [op |-> op, labware |-> labware, slot |-> slot, col |-> col,
     vol |-> vol, reps |-> reps, rate |-> rate, held |-> hasTip, tip |-> tip]

LoadCmd(h) == Cmd("load_labware", h.labware, h.slot, -1, 0, 0, 0, 0)

CurTip == IF hasTip THEN tipsUsed ELSE 0

\* range(filled_columns - 1), line 189: the exclusive upper bound of j
InnerRange_C5(fc) == fc

InnerRange(fc) == fc - 1

\* columns()[j+1], line 194
DestColumn_C6(col) == col

DestColumn(col) == col + 1

Init ==
    /\ instances \in InstanceInputs
    /\ filled_columns \in ColumnInputs
    /\ pc = "module"
    /\ dilutionplate_10X = << >>
    /\ tiprack_10X = << >>
    /\ trace = << >>
    /\ i = 0
    /\ j = 0
    /\ hasTip = FALSE
    /\ tipsUsed = 0
    /\ loc = <<0, -1>>
    /\ printed = << >>
    /\ exitStatus = << >>

\* lines 27-30: sys.exit() without argument ends the process with status 0
ModuleGuard ==
    /\ pc = "module"
    /\ IF TooManyColumns(instances, filled_columns)
       THEN /\ printed' = Append(printed, "too_many_columns")
            /\ exitStatus' = <<0>>
            /\ pc' = "exited"
       ELSE /\ pc' = "how_many"
            /\ UNCHANGED <<printed, exitStatus>>
    /\ UNCHANGED <<instances, filled_columns, dilutionplate_10X, tiprack_10X,
                   trace, i, j, hasTip, tipsUsed, loc>>

\* line 155: getattr(switch, how_many(instances), 'default'), with the
\* print of how_many's else branch (lines 52-53)
Dispatch ==
    /\ pc = "how_many"
    /\ pc' = how_many(instances)
    /\ printed' = IF how_many(instances) = "default"
                  THEN Append(printed, "bad_instances")
                  ELSE printed
    /\ UNCHANGED <<instances, filled_columns, dilutionplate_10X, tiprack_10X,
                   trace, i, j, hasTip, tipsUsed, loc, exitStatus>>

\* one method of switch: its loads and appends, then its call of the callee
SwitchCase(name) ==
    /\ pc = name
    /\ trace' = trace \o [k \in 1..Len(Handles(name)) |-> LoadCmd(Handles(name)[k])]
    /\ dilutionplate_10X' = dilutionplate_10X \o SelectSeq(Handles(name), IsPlate)
    /\ tiprack_10X' = tiprack_10X \o SelectSeq(Handles(name), IsTiprack)
    /\ pc' = IF Callee(name) = "return" THEN "load_instrument" ELSE Callee(name)
    /\ UNCHANGED <<instances, filled_columns, i, j, hasTip, tipsUsed, loc,
                   printed, exitStatus>>

six == SwitchCase("six")
five == SwitchCase("five")
four == SwitchCase("four")
three == SwitchCase("three")
two == SwitchCase("two")
one == SwitchCase("one")

\* lines 152-153
default ==
    /\ pc = "default"
    /\ exitStatus' = <<0>>
    /\ pc' = "exited"
    /\ UNCHANGED <<instances, filled_columns, dilutionplate_10X, tiprack_10X,
                   trace, i, j, hasTip, tipsUsed, loc, printed>>

\* lines 162-163
load_instrument ==
    /\ pc = "load_instrument"
    /\ trace' = Append(trace, Cmd("load_instrument", pipette_type, 0, -1, 0, 0, 0, 0))
    /\ i' = 0
    /\ pc' = "for_i"
    /\ UNCHANGED <<instances, filled_columns, dilutionplate_10X, tiprack_10X,
                   j, hasTip, tipsUsed, loc, printed, exitStatus>>

\* line 183: for i in range(instances)
ForI ==
    /\ pc = "for_i"
    /\ pc' = IF i < instances THEN "pick_up_tip_1" ELSE "done"
    /\ UNCHANGED <<instances, filled_columns, dilutionplate_10X, tiprack_10X,
                   trace, i, j, hasTip, tipsUsed, loc, printed, exitStatus>>

\* pick_up_tip(): the next tip of the racks given to load_instrument, in
\* order; the call raises when they are used up
PickUpTip(next) ==
    IF tipsUsed >= TipsPerRack * Len(tiprack_10X)
    THEN /\ pc' = "crashed"
         /\ printed' = Append(printed, "OutOfTipsError")
         /\ UNCHANGED <<trace, hasTip, tipsUsed, loc>>
    ELSE /\ trace' = Append(trace,
                Cmd("pick_up_tip", tiprack_type,
                    tiprack_10X[(tipsUsed \div TipsPerRack) + 1].slot,
                    tipsUsed % TipsPerRack, 0, 0, 0, tipsUsed + 1))
         /\ hasTip' = TRUE
         /\ tipsUsed' = tipsUsed + 1
         /\ loc' = <<0, -1>>
         /\ pc' = next
         /\ UNCHANGED printed

\* drop_tip(): into the trash
DropTip ==
    /\ trace' = Append(trace, Cmd("drop_tip", "", TrashSlot, -1, 0, 0, 0, CurTip))
    /\ hasTip' = FALSE
    /\ loc' = <<TrashSlot, -1>>

\* line 184
PickUpTipFirst ==
    /\ pc = "pick_up_tip_1"
    /\ PickUpTip("mix_1")
    /\ UNCHANGED <<instances, filled_columns, dilutionplate_10X, tiprack_10X,
                   i, j, exitStatus>>

\* lines 185-186
MixFirst ==
    /\ pc = "mix_1"
    /\ IF i + 1 > Len(dilutionplate_10X)
       THEN /\ pc' = "crashed"
            /\ printed' = Append(printed, "IndexError")
            /\ UNCHANGED <<trace, loc>>
       ELSE /\ trace' = Append(trace,
                   Cmd("mix", plate_type, dilutionplate_10X[i + 1].slot, 0,
                       mix_volume, mix_repetitions, 0, CurTip))
            /\ loc' = <<dilutionplate_10X[i + 1].slot, 0>>
            /\ pc' = "drop_tip_1"
            /\ UNCHANGED printed
    /\ UNCHANGED <<instances, filled_columns, dilutionplate_10X, tiprack_10X,
                   i, j, hasTip, tipsUsed, exitStatus>>

\* line 187
DropTipFirst_C7 ==
    /\ pc = "drop_tip_1"
    /\ j' = 0
    /\ pc' = "for_j"
    /\ UNCHANGED <<instances, filled_columns, dilutionplate_10X, tiprack_10X,
                   trace, i, hasTip, tipsUsed, loc, printed, exitStatus>>

DropTipFirst ==
    /\ pc = "drop_tip_1"
    /\ DropTip
    /\ j' = 0
    /\ pc' = "for_j"
    /\ UNCHANGED <<instances, filled_columns, dilutionplate_10X, tiprack_10X,
                   i, tipsUsed, printed, exitStatus>>

\* line 189: for j in range(filled_columns - 1); when it is exhausted the
\* outer loop takes its next i
ForJ ==
    /\ pc = "for_j"
    /\ IF j < InnerRange(filled_columns)
       THEN pc' = "pick_up_tip_2" /\ i' = i
       ELSE pc' = "for_i" /\ i' = i + 1
    /\ UNCHANGED <<instances, filled_columns, dilutionplate_10X, tiprack_10X,
                   trace, j, hasTip, tipsUsed, loc, printed, exitStatus>>

\* line 190
PickUpTipTransfer ==
    /\ pc = "pick_up_tip_2"
    /\ PickUpTip("aspirate")
    /\ UNCHANGED <<instances, filled_columns, dilutionplate_10X, tiprack_10X,
                   i, j, exitStatus>>

\* lines 191-192
Aspirate ==
    /\ pc = "aspirate"
    /\ IF i + 1 > Len(dilutionplate_10X) \/ j >= PlateColumns
       THEN /\ pc' = "crashed"
            /\ printed' = Append(printed, "IndexError")
            /\ UNCHANGED <<trace, loc>>
       ELSE /\ trace' = Append(trace,
                   Cmd("aspirate", plate_type, dilutionplate_10X[i + 1].slot, j,
                       dilution_volume, 0, 0, CurTip))
            /\ loc' = <<dilutionplate_10X[i + 1].slot, j>>
            /\ pc' = "dispense"
            /\ UNCHANGED printed
    /\ UNCHANGED <<instances, filled_columns, dilutionplate_10X, tiprack_10X,
                   i, j, hasTip, tipsUsed, exitStatus>>

\* lines 193-194
Dispense ==
    /\ pc = "dispense"
    /\ IF i + 1 > Len(dilutionplate_10X) \/ DestColumn(j) >= PlateColumns
       THEN /\ pc' = "crashed"
            /\ printed' = Append(printed, "IndexError")
            /\ UNCHANGED <<trace, loc>>
       ELSE /\ trace' = Append(trace,
                   Cmd("dispense", plate_type, dilutionplate_10X[i + 1].slot,
                       DestColumn(j), dilution_volume, 0, 0, CurTip))
            /\ loc' = <<dilutionplate_10X[i + 1].slot, DestColumn(j)>>
            /\ pc' = "mix_2"
            /\ UNCHANGED printed
    /\ UNCHANGED <<instances, filled_columns, dilutionplate_10X, tiprack_10X,
                   i, j, hasTip, tipsUsed, exitStatus>>

\* line 195: no location argument, the mix happens where the pipette is
MixTransfer ==
    /\ pc = "mix_2"
    /\ trace' = Append(trace,
           Cmd("mix", plate_type, loc[1], loc[2], mix_volume, mix_repetitions,
               mix_rate, CurTip))
    /\ pc' = "drop_tip_2"
    /\ UNCHANGED <<instances, filled_columns, dilutionplate_10X, tiprack_10X,
                   i, j, hasTip, tipsUsed, loc, printed, exitStatus>>

\* line 196
DropTipTransfer_C8 ==
    /\ pc = "drop_tip_2"
    /\ IF j + 1 < InnerRange(filled_columns)
       THEN /\ pc' = "aspirate"
            /\ UNCHANGED <<trace, hasTip, loc>>
       ELSE /\ DropTip
            /\ pc' = "for_j"
    /\ j' = j + 1
    /\ UNCHANGED <<instances, filled_columns, dilutionplate_10X, tiprack_10X,
                   i, tipsUsed, printed, exitStatus>>

DropTipTransfer ==
    /\ pc = "drop_tip_2"
    /\ DropTip
    /\ j' = j + 1
    /\ pc' = "for_j"
    /\ UNCHANGED <<instances, filled_columns, dilutionplate_10X, tiprack_10X,
                   i, tipsUsed, printed, exitStatus>>

Next ==
    \/ ModuleGuard
    \/ Dispatch
    \/ six
    \/ five
    \/ four
    \/ three
    \/ two
    \/ one
    \/ default
    \/ load_instrument
    \/ ForI
    \/ PickUpTipFirst
    \/ MixFirst
    \/ DropTipFirst
    \/ ForJ
    \/ PickUpTipTransfer
    \/ Aspirate
    \/ Dispense
    \/ MixTransfer
    \/ DropTipTransfer

Spec == Init /\ [][Next]_vars

(* ---- vocabulary of the properties ---- *)
Terminated == pc \in {"exited", "done", "crashed"}
ValidCount == instances \in 1..6
LayoutDone == pc \notin {"module", "how_many", "six", "five", "four", "three",
                         "two", "one", "default", "exited"}
Ops(o) == {k \in DOMAIN trace : trace[k].op = o}
WellOps == {"aspirate", "dispense", "mix"}
Slots(handles) == {handles[k].slot : k \in DOMAIN handles}
LastN(s, n) == SubSeq(s, Len(s) - n + 1, Len(s))
MixOnly ==
    {k \in Ops("mix") : /\ k > 1 /\ k < Len(trace)
                        /\ trace[k - 1].op = "pick_up_tip"
                        /\ trace[k + 1].op = "drop_tip"}
Transfers ==
    {k \in Ops("pick_up_tip") :
        /\ k + 4 <= Len(trace)
        /\ trace[k + 1].op = "aspirate"
        /\ trace[k + 2].op = "dispense"
        /\ trace[k + 3].op = "mix"
        /\ trace[k + 4].op = "drop_tip"}
TipMoves == SelectSeq(trace, LAMBDA c : c.op \in {"pick_up_tip", "drop_tip"})

\* C1: with an instance count outside 1..6 no load_labware, load_instrument
\* or pipette command is ever emitted, and the program ends by exiting: the
\* trace is empty when it terminates.
C1_NoCommandOnInvalidCount ==
    ~ValidCount => /\ trace = << >>
                   /\ (Terminated => pc = "exited")

C1_Witness ==
    /\ instances = 0
    /\ pc = "exited"
    /\ printed = <<"bad_instances">>
    /\ trace = << >>

\* C2: with an instance count outside 1..6 the process prints a diagnostic
\* and exits with a nonzero status; with a count in 1..6 it never exits
\* explicitly.
C2_AbnormalExit ==
    /\ (~ValidCount /\ pc = "exited") =>
          /\ printed # << >>
          /\ exitStatus # << >>
          /\ exitStatus[1] # 0
    /\ ValidCount => (pc # "exited" /\ exitStatus = << >>)

\* C3 as stated: for a count N in 1..6 the layout has N plates and N
\* tipracks, and no slot is used twice.
C3_Original ==
    (ValidCount /\ LayoutDone) =>
        /\ Len(dilutionplate_10X) = instances
        /\ Len(tiprack_10X) = instances
        /\ Cardinality(Slots(dilutionplate_10X) \cup Slots(tiprack_10X))
              = 2 * instances

\* C3 amended: for a count N in 1..6 the layout has N plates, and N
\* tipracks for N <= 5 but 5 tipracks for N = 6 (the sixth plate has no
\* tiprack of its own); no slot is used twice.
C3_LayoutSize ==
    (ValidCount /\ LayoutDone) =>
        /\ Len(dilutionplate_10X) = instances
        /\ Len(tiprack_10X) = (IF instances = 6 THEN 5 ELSE instances)
        /\ \A k \in DOMAIN dilutionplate_10X : IsPlate(dilutionplate_10X[k])
        /\ \A k \in DOMAIN tiprack_10X : IsTiprack(tiprack_10X[k])
        /\ Cardinality(Slots(dilutionplate_10X) \cup Slots(tiprack_10X))
              = Len(dilutionplate_10X) + Len(tiprack_10X)

C3_Witness ==
    /\ instances = 6
    /\ pc = "load_instrument"
    /\ Len(dilutionplate_10X) = 6
    /\ Len(tiprack_10X) = 5

\* C4 as stated: for N in 2..6 the first N-1 entries of the plate list and
\* of the tiprack list built for N are the lists built for N-1.
C4_Original ==
    (instances \in 2..6 /\ LayoutDone) =>
        /\ SubSeq(dilutionplate_10X, 1, instances - 1) = PlatesFor(instances - 1)
        /\ SubSeq(tiprack_10X, 1, instances - 1) = TipracksFor(instances - 1)

\* C4 amended: for N in 2..6 the last N-1 entries of the plate list and of
\* the tiprack list built for N are the lists built for N-1 (the pair of
\* instance N is registered first, so it is the lists' head that is new).
C4_Nesting ==
    (instances \in 2..6 /\ LayoutDone) =>
        /\ dilutionplate_10X = PlatesFor(instances)
        /\ tiprack_10X = TipracksFor(instances)
        /\ LastN(dilutionplate_10X, instances - 1) = PlatesFor(instances - 1)
        /\ LastN(tiprack_10X, instances - 1) = TipracksFor(instances - 1)

C4_Witness ==
    /\ instances = 3
    /\ pc = "load_instrument"
    /\ dilutionplate_10X[1].slot = 7
    /\ LastN(dilutionplate_10X, 2) = PlatesFor(2)

\* C5: a complete run with N in 1..6 instances and F >= 1 filled columns
\* has exactly N mix-only tip cycles, one on column 0 of each instance's
\* plate, and exactly N*(F-1) pick/aspirate/dispense/mix/drop transfers:
\* N*F pick_up_tip and N*F drop_tip in all.
C5_CycleCounts ==
    (pc = "done" /\ ValidCount /\ filled_columns >= 1) =>
        /\ Cardinality(MixOnly) = instances
        /\ \A n \in 1..instances :
              Cardinality({k \in MixOnly :
                              /\ trace[k].slot = dilutionplate_10X[n].slot
                              /\ trace[k].col = 0}) = 1
        /\ Cardinality(Transfers) = instances * (filled_columns - 1)
        /\ Cardinality(Ops("aspirate")) = instances * (filled_columns - 1)
        /\ Cardinality(Ops("dispense")) = instances * (filled_columns - 1)
        /\ Cardinality(Ops("mix")) = instances * filled_columns
        /\ Cardinality(Ops("pick_up_tip")) = instances * filled_columns
        /\ Cardinality(Ops("drop_tip")) = instances * filled_columns

C5_Witness ==
    /\ pc = "done"
    /\ instances = 3
    /\ filled_columns = 6
    /\ Cardinality(MixOnly) = 3
    /\ Cardinality(Transfers) = 15
    /\ Cardinality(Ops("pick_up_tip")) = 18

\* C6: every aspirate from column c of a plate is followed, as the very
\* next command, by a dispense of the same volume into column c+1 of the
\* same plate; an aspirate that ends the trace has its dispense pending.
C6_AspirateThenDispense ==
    \A k \in Ops("aspirate") :
        IF k < Len(trace)
        THEN /\ trace[k + 1].op = "dispense"
             /\ trace[k + 1].vol = trace[k].vol
             /\ trace[k + 1].slot = trace[k].slot
             /\ trace[k + 1].col = trace[k].col + 1
        ELSE pc = "dispense"

C6_Witness ==
    \E k \in Ops("aspirate") :
        /\ k < Len(trace)
        /\ trace[k].col = 4
        /\ trace[k + 1].op = "dispense"
        /\ trace[k + 1].col = 5

\* C7: aspirate, dispense, mix and drop_tip are issued only while a tip is
\* held, pick_up_tip only while none is held, pick_up_tip and drop_tip
\* alternate starting with pick_up_tip, and no tip is held when the run
\* is over.
C7_TipHolding ==
    /\ \A k \in DOMAIN trace :
          /\ trace[k].op \in WellOps \cup {"drop_tip"} => trace[k].held
          /\ trace[k].op = "pick_up_tip" => ~trace[k].held
    /\ \A m \in DOMAIN TipMoves :
          TipMoves[m].op = (IF m % 2 = 1 THEN "pick_up_tip" ELSE "drop_tip")
    /\ hasTip = (Len(TipMoves) % 2 = 1)
    /\ pc = "done" => ~hasTip

C7_Witness ==
    /\ pc = "done"
    /\ Len(TipMoves) = 8
    /\ ~hasTip

\* C8: one tip serves at most one aspirate and one dispense; all wells it
\* touches are on one plate, in column c and then c+1 at most, never going
\* back to a lower column; the tip of a column-0 mix serves no transfer.
\* The trace only grows, so the terminated runs cover every prefix.
C8_NoTipReuse ==
    Terminated =>
        \A k \in DOMAIN trace : \A l \in DOMAIN trace :
            (/\ k < l
             /\ trace[k].tip # 0
             /\ trace[k].tip = trace[l].tip
             /\ trace[k].op \in WellOps
             /\ trace[l].op \in WellOps) =>
                /\ trace[k].slot = trace[l].slot
                /\ trace[k].col <= trace[l].col
                /\ trace[l].col <= trace[k].col + 1
                /\ ~(trace[k].op = "aspirate" /\ trace[l].op = "aspirate")
                /\ ~(trace[k].op = "dispense" /\ trace[l].op = "dispense")
                /\ k \in MixOnly => FALSE

C8_Witness ==
    /\ pc = "done"
    /\ \E k \in Ops("aspirate") : \E l \in Ops("aspirate") :
          /\ trace[l].tip = trace[k].tip + 1
          /\ trace[l].col = trace[k].col + 1
          /\ trace[l].slot = trace[k].slot

\* C9: no two load_labware calls of a run name the same deck slot, and the
\* trash slot 12 is never loaded.
C9_DistinctSlots ==
    /\ \A k \in Ops("load_labware") : \A l \in Ops("load_labware") :
          k # l => trace[k].slot # trace[l].slot
    /\ \A k \in Ops("load_labware") : trace[k].slot \in 1..11

C9_Witness ==
    /\ instances = 6
    /\ Cardinality(Ops("load_labware")) = 11

\* C10: with 1..6 instances and 1..12 filled columns, a run that passes the
\* start-up guard never asks for more tips than its racks hold: the number
\* of pick_up_tip calls stays within 12 per loaded tiprack and no
\* pick_up_tip fails for want of a tip.
C10_TipSufficiency ==
    (ValidCount /\ filled_columns \in 1..12) =>
        /\ pc # "crashed"
        /\ LayoutDone =>
              /\ instances * filled_columns <= TipsPerRack * Len(tiprack_10X)
              /\ Cardinality(Ops("pick_up_tip")) = tipsUsed
              /\ tipsUsed <= TipsPerRack * Len(tiprack_10X)

C10_Witness ==
    /\ pc = "done"
    /\ instances = 6
    /\ filled_columns = 10
    /\ tipsUsed = 60
    /\ Len(tiprack_10X) = 5

====
